---- MODULE Spec2Model ----
(***************************************************************************)
(* KosmOSS: the spacecraft mode governor (src/src/fsm/state_machine.rs)    *)
(* and the two propagation loops that drive the dynamics (src/src/main.rs, *)
(* src/tests/integration.rs).                                              *)
(*                                                                         *)
(* Units.  Angular rates are integers in milli-rad/s (0.01 rad/s = 10,     *)
(* 0.5 rad/s = 500); times are integers in seconds.  All comparisons of    *)
(* the source are kept strict, as written there.  The source computes in   *)
(* f64: rounding is monotone and 5.0, 10.0 and 30.0 are representable, so  *)
(* a rounded difference exceeds one of them only if the exact one does.    *)
(* NaN inputs (every comparison false) are not among the sampled inputs.   *)
(***************************************************************************)
EXTENDS Integers, Sequences, FiniteSets, TLC

VARIABLES
    fsm,          \* the SpacecraftFSM object (its five fields)
    prev,         \* SpacecraftFSM fields as they were when the last call started
    call,         \* the last call made on the governor: operation, inputs, outputs
    mono,         \* TRUE while the time arguments of the calls so far never decreased
    change_time,  \* time argument of the last call that changed current_state
    notices,      \* time arguments of the calls that printed the rejection notice
    loop,         \* a propagation loop: program, position in the step, locals
    calc          \* one application of a pure function: inputs and results

vars == <<fsm, prev, call, mono, change_time, notices, loop, calc>>

----------------------------------------------------------------------------
(* Bounds of the model *)

MaxTime == 31
TimeStep == 5

(* Time arguments offered to the governor: around every multiple of      *)
(* TimeStep, so that dwells of exactly 5, 10 and 30 s and their          *)
(* neighbours all occur.                                                 *)
Times == {t \in 0..MaxTime : t % TimeStep \in {0, 1}}

(* Body rates offered to the governor, in milli-rad/s.  <<6,8,0>> has    *)
(* magnitude exactly 10 and <<300,400,0>> exactly 500.                   *)
AngVelSamples ==
    { <<9, 0, 0>>, <<6, 8, 0>>, <<0, 11, 0>>, <<300, 400, 0>>, <<0, 0, 501>> }

----------------------------------------------------------------------------
(* SpacecraftState and SpacecraftFSM *)

SpacecraftState ==
    {"SafeMode", "Detumbling", "NominalOperation", "ManeuverPrep",
     "Maneuvering", "Emergency"}

AngularVelocityThreshold == 10
EmergencyAngularVelocity == 500
PrepDwell == 5
EmergencyDwell == 30
MessageInterval == 10
InitialMessageTime == -1

New ==
    [ current_state              |-> "SafeMode",
      angular_velocity_threshold |-> AngularVelocityThreshold,
      emergency_angular_velocity |-> EmergencyAngularVelocity,
      last_state_change          |-> 0,
      last_message_time          |-> InitialMessageTime ]

(* Vector3::magnitude() compared with a non-negative threshold: the      *)
(* comparison of the norms is the comparison of their squares.           *)
NormSquared(v) == v[1] * v[1] + v[2] * v[2] + v[3] * v[3]
(* Variant: the threshold itself already counts as above it. *)
MagnitudeAtOrAbove(v, x) == NormSquared(v) >= x * x
MagnitudeAbove(v, x) == NormSquared(v) > x * x
MagnitudeBelow(v, x) == NormSquared(v) < x * x

(* Variant: the mode changes but the change is not timestamped. *)
TransitionToUnstamped(f, new_state, time) ==
    IF f.current_state # new_state
    THEN [f EXCEPT !.current_state = new_state]
    ELSE f

TransitionTo(f, new_state, time) ==
    IF f.current_state # new_state
    THEN [f EXCEPT !.current_state = new_state, !.last_state_change = time]
    ELSE f

(* Variant: the dwell is measured from the last notice, not the last change. *)
EvaluateManeuverPrepFromNotice(f, vehicle_state, time) ==
    IF /\ MagnitudeBelow(vehicle_state.angular_velocity, f.angular_velocity_threshold)
       /\ time - f.last_message_time > PrepDwell
    THEN TransitionTo(f, "Maneuvering", time)
    ELSE f

(* Variant: a dwell of exactly 5 s already releases the maneuver. *)
EvaluateManeuverPrepAtDwell(f, vehicle_state, time) ==
    IF /\ MagnitudeBelow(vehicle_state.angular_velocity, f.angular_velocity_threshold)
       /\ time - f.last_state_change >= PrepDwell
    THEN TransitionTo(f, "Maneuvering", time)
    ELSE f

EvaluateManeuverPrep(f, vehicle_state, time) ==
    IF /\ MagnitudeBelow(vehicle_state.angular_velocity, f.angular_velocity_threshold)
       /\ time - f.last_state_change > PrepDwell
    THEN TransitionTo(f, "Maneuvering", time)
    ELSE f

(* Variant: a maneuver is aborted at the detumbling threshold. *)
EvaluateManeuveringLowThreshold(f, vehicle_state, time) ==
    IF MagnitudeAbove(vehicle_state.angular_velocity, f.angular_velocity_threshold)
    THEN TransitionTo(f, "Emergency", time)
    ELSE f

EvaluateManeuvering(f, vehicle_state, time) ==
    IF MagnitudeAbove(vehicle_state.angular_velocity, f.emergency_angular_velocity)
    THEN TransitionTo(f, "Emergency", time)
    ELSE f

(* Variant: the dwell is computed with its operands exchanged. *)
EvaluateEmergencyLatched(f, vehicle_state, time) ==
    IF /\ MagnitudeBelow(vehicle_state.angular_velocity, f.angular_velocity_threshold)
       /\ f.last_state_change - time > EmergencyDwell
    THEN TransitionTo(f, "SafeMode", time)
    ELSE f

(* Variant: Emergency is left after the maneuver-preparation dwell. *)
EvaluateEmergencyShortDwell(f, vehicle_state, time) ==
    IF /\ MagnitudeBelow(vehicle_state.angular_velocity, f.angular_velocity_threshold)
       /\ time - f.last_state_change > PrepDwell
    THEN TransitionTo(f, "SafeMode", time)
    ELSE f

EvaluateEmergency(f, vehicle_state, time) ==
    IF /\ MagnitudeBelow(vehicle_state.angular_velocity, f.angular_velocity_threshold)
       /\ time - f.last_state_change > EmergencyDwell
    THEN TransitionTo(f, "SafeMode", time)
    ELSE f

(* Variant: the Emergency row and the SafeMode row taken in one call. *)
EvaluateTransitionTwoRows(f, state) ==
    LET angular_velocity == state.angular_velocity
        current_time == state.mission_elapsed_time
    IN CASE f.current_state = "SafeMode" ->
                IF MagnitudeAbove(angular_velocity, f.angular_velocity_threshold)
                THEN TransitionTo(f, "Detumbling", current_time)
                ELSE f
         [] f.current_state = "Detumbling" ->
                IF MagnitudeBelow(angular_velocity, f.angular_velocity_threshold)
                THEN TransitionTo(f, "NominalOperation", current_time)
                ELSE f
         [] f.current_state = "NominalOperation" ->
                IF MagnitudeAbove(angular_velocity, f.emergency_angular_velocity)
                THEN TransitionTo(TransitionTo(f, "Emergency", current_time),
                                  "SafeMode", current_time)
                ELSE f
         [] f.current_state = "ManeuverPrep" -> EvaluateManeuverPrep(f, state, current_time)
         [] f.current_state = "Maneuvering" ->
                TransitionTo(EvaluateManeuvering(f, state, current_time),
                             IF MagnitudeAbove(angular_velocity, f.emergency_angular_velocity)
                             THEN "SafeMode" ELSE f.current_state, current_time)
         [] f.current_state = "Emergency" -> EvaluateEmergency(f, state, current_time)

EvaluateTransition(f, state) ==
    LET angular_velocity == state.angular_velocity
        current_time == state.mission_elapsed_time
    IN CASE f.current_state = "SafeMode" ->
                IF MagnitudeAbove(angular_velocity, f.angular_velocity_threshold)
                THEN TransitionTo(f, "Detumbling", current_time)
                ELSE f
         [] f.current_state = "Detumbling" ->
                IF MagnitudeBelow(angular_velocity, f.angular_velocity_threshold)
                THEN TransitionTo(f, "NominalOperation", current_time)
                ELSE f
         [] f.current_state = "NominalOperation" ->
                IF MagnitudeAbove(angular_velocity, f.emergency_angular_velocity)
                THEN TransitionTo(f, "Emergency", current_time)
                ELSE f
         [] f.current_state = "ManeuverPrep" -> EvaluateManeuverPrep(f, state, current_time)
         [] f.current_state = "Maneuvering" -> EvaluateManeuvering(f, state, current_time)
         [] f.current_state = "Emergency" -> EvaluateEmergency(f, state, current_time)

(* Variant: the rejection notice is printed without being remembered. *)
CommandManeuverForgetful(f, time) ==
    IF f.current_state = "NominalOperation"
    THEN [fsm |-> TransitionTo(f, "ManeuverPrep", time), ret |-> TRUE, printed |-> FALSE]
    ELSE IF time - f.last_message_time > MessageInterval
    THEN [fsm |-> f, ret |-> FALSE, printed |-> TRUE]
    ELSE [fsm |-> f, ret |-> FALSE, printed |-> FALSE]

(* Variant: a maneuver is also accepted while still detumbling. *)
CommandManeuverEager(f, time) ==
    IF f.current_state \in {"NominalOperation", "Detumbling"}
    THEN [fsm |-> TransitionTo(f, "ManeuverPrep", time), ret |-> TRUE, printed |-> FALSE]
    ELSE IF time - f.last_message_time > MessageInterval
    THEN [fsm |-> [f EXCEPT !.last_message_time = time], ret |-> FALSE, printed |-> TRUE]
    ELSE [fsm |-> f, ret |-> FALSE, printed |-> FALSE]

(* command_maneuver: the governor after the call, the value returned and *)
(* whether "Cannot start maneuver from state" was printed.               *)
CommandManeuver(f, time) ==
    IF f.current_state = "NominalOperation"
    THEN [fsm |-> TransitionTo(f, "ManeuverPrep", time), ret |-> TRUE, printed |-> FALSE]
    ELSE IF time - f.last_message_time > MessageInterval
    THEN [fsm |-> [f EXCEPT !.last_message_time = time], ret |-> FALSE, printed |-> TRUE]
    ELSE [fsm |-> f, ret |-> FALSE, printed |-> FALSE]

(* Variant: control is suppressed in SafeMode only. *)
ShouldApplyControlInEmergency(f) == ~(f.current_state \in {"SafeMode"})

ShouldApplyControl(f) == ~(f.current_state \in {"SafeMode", "Emergency"})

ShouldApplyThrust(f) == f.current_state = "Maneuvering"

GetLastStateChange(f) == f.last_state_change

----------------------------------------------------------------------------
(* One governor driven by an arbitrary caller *)

NoVector == <<0, 0, 0>>
NoLoop == [prog |-> "none"]
NoCalc == [op |-> "none"]

Init ==
    /\ fsm = New
    /\ prev = New
    /\ call = [op |-> "new", angular_velocity |-> NoVector, time |-> 0,
               ret |-> FALSE, printed |-> FALSE, since |-> 0, noticed |-> {}]
    /\ mono = TRUE
    /\ change_time = 0
    /\ notices = {}
    /\ loop = NoLoop
    /\ calc = NoCalc

(* What every call records: the governor before it, the call itself     *)
(* (with since, the time of the last mode change before it, and noticed, *)
(* the notices printed before it), and the observations kept beside the  *)
(* governor.                                                             *)
Record(after, c) ==
    /\ fsm' = after
    /\ prev' = fsm
    /\ call' = [op |-> c.op, angular_velocity |-> c.angular_velocity, time |-> c.time,
                ret |-> c.ret, printed |-> c.printed,
                since |-> change_time, noticed |-> notices]
    /\ mono' = (mono /\ c.time >= call.time)
    /\ change_time' = IF after.current_state # fsm.current_state THEN c.time ELSE change_time
    /\ notices' = IF c.printed THEN notices \cup {c.time} ELSE notices
    /\ UNCHANGED <<loop, calc>>

EvaluateTransitionCall ==
    \E v \in AngVelSamples, t \in Times :
        Record(EvaluateTransition(fsm, [angular_velocity |-> v, mission_elapsed_time |-> t]),
               [op |-> "evaluate_transition", angular_velocity |-> v, time |-> t,
                ret |-> FALSE, printed |-> FALSE])

CommandManeuverCall ==
    \E t \in Times :
        LET r == CommandManeuver(fsm, t)
        IN Record(r.fsm,
                  [op |-> "command_maneuver", angular_velocity |-> NoVector, time |-> t,
                   ret |-> r.ret, printed |-> r.printed])

Next == EvaluateTransitionCall \/ CommandManeuverCall

Spec == Init /\ [][Next]_vars

TypeOK ==
    /\ fsm.current_state \in SpacecraftState
    /\ prev.current_state \in SpacecraftState
    /\ fsm.last_state_change \in Times
    /\ fsm.last_message_time \in Times \cup {InitialMessageTime}
    /\ call.op \in {"new", "evaluate_transition", "command_maneuver"}
    /\ mono \in BOOLEAN

----------------------------------------------------------------------------
(* The propagation loops: main (src/src/main.rs) and integration_test    *)
(* (src/tests/integration.rs).  One action per statement group of the    *)
(* loop body; loop.events lists the groups executed in the current step. *)
(*                                                                       *)
(* The physics is abstracted to what the gating reads: the integrator    *)
(* may return any sampled body rate, guidance and controller may return  *)
(* a zero or a non-zero vector.  The step size, the number of steps and  *)
(* the maneuver time are scaled (source: dt = 0.01 s, 320000 steps,      *)
(* maneuver_time = 1000 s) so that every mode is reached in a few steps. *)

Steps == 14
Dt == 5
ManeuverTime == 10
SampleEvery == 600

Zero3 == <<0, 0, 0>>
GuidanceOutputs == {Zero3, <<0, 0, 7>>}      \* get_desired_force: zero or a burn
ControllerOutputs == {Zero3, <<1, 0, 0>>}    \* compute_control_torque

(* EOPData: six scalars, here in units of 1e-7 (arcseconds or seconds)   *)
EOPErrors == {"IoError", "ReqwestError", "CsvError", "ParseFloatError", "InvalidEpoch",
              "MissingEOPData", "DataInterpolationError", "HttpForbidden"}
Ok(x) == [ok |-> TRUE, value |-> x]
Err(e) == [ok |-> FALSE, error |-> e]
NoEOP == [x_pole |-> 0, y_pole |-> 0, ut1_utc |-> 0, lod |-> 0, ddpsi |-> 0, ddeps |-> 0]
DefaultEOP == [x_pole |-> 1615560, y_pole |-> 2472190, ut1_utc |-> -890529,
               lod |-> 17000, ddpsi |-> -520000, ddeps |-> -30000]
TabulatedEOP == [x_pole |-> 1000000, y_pole |-> 3000000, ut1_utc |-> -500000,
                 lod |-> 10000, ddpsi |-> -400000, ddeps |-> -20000]
EOPOutcomes == {Ok(TabulatedEOP)} \cup {Err(e) : e \in EOPErrors}   \* EOPData::from_epoch

(* Option *)
None == [some |-> FALSE]
Some(x) == [some |-> TRUE, value |-> x]

NoFSM == [current_state |-> "none"]          \* main constructs no SpacecraftFSM
NoDynamics == [thrust |-> None, torque |-> None, built |-> FALSE]

LoopStart(prog, angular_velocity) ==
    [ prog               |-> prog,
      pc                 |-> "set_time",
      i                  |-> 0,
      state              |-> [angular_velocity |-> angular_velocity,
                              mission_elapsed_time |-> 0, epoch |-> 0],
      maneuver_scheduled |-> FALSE,
      thrust             |-> Zero3,
      control_torque     |-> Zero3,
      dynamics           |-> NoDynamics,
      eop                |-> NoEOP,
      eop_error          |-> FALSE,
      events             |-> << >> ]

LoopInit ==
    /\ \/ loop = LoopStart("main", <<10, 0, 0>>) /\ fsm = NoFSM
       \/ loop = LoopStart("integration_test", <<50, 20, 10>>) /\ fsm = New
    /\ prev = New
    /\ call = [op |-> "new", angular_velocity |-> NoVector, time |-> 0,
               ret |-> FALSE, printed |-> FALSE, since |-> 0, noticed |-> {}]
    /\ mono = TRUE
    /\ change_time = 0
    /\ notices = {}
    /\ calc = NoCalc

LoopKeeps == UNCHANGED <<prev, call, mono, change_time, notices, calc>>

Did(l, event, pc) == [l EXCEPT !.events = Append(@, event), !.pc = pc]

(* state.mission_elapsed_time = current_time; state.epoch = current_epoch *)
SetTime ==
    /\ loop.pc = "set_time"
    /\ loop.i < Steps
    /\ LET current_time == loop.i * Dt
       IN loop' = [loop EXCEPT !.state.mission_elapsed_time = current_time,
                               !.state.epoch = current_time,
                               !.thrust = Zero3, !.control_torque = Zero3,
                               !.dynamics = NoDynamics, !.eop = NoEOP,
                               !.eop_error = FALSE,
                               !.events = <<"set_time">>,
                               !.pc = IF loop.prog = "integration_test"
                                      THEN "evaluate" ELSE "control"]
    /\ UNCHANGED fsm
    /\ LoopKeeps

(* fsm.evaluate_transition(&state) *)
TestEvaluate ==
    /\ loop.pc = "evaluate"
    /\ fsm' = EvaluateTransition(fsm, loop.state)
    /\ loop' = Did(loop, "evaluate_transition", "command")
    /\ LoopKeeps

(* Variant: the maneuver counts as scheduled once it has been commanded, *)
(* whatever command_maneuver returned.                                   *)
TestCommandOnce ==
    /\ loop.pc = "command"
    /\ LET current_time == loop.state.mission_elapsed_time
       IN IF ~loop.maneuver_scheduled /\ current_time >= ManeuverTime
          THEN LET r == CommandManeuver(fsm, current_time)
               IN /\ fsm' = r.fsm
                  /\ loop' = [Did(loop, "command_maneuver", "control")
                                EXCEPT !.maneuver_scheduled = TRUE]
          ELSE /\ UNCHANGED fsm
               /\ loop' = [loop EXCEPT !.pc = "control"]
    /\ LoopKeeps

(* if !maneuver_scheduled && current_time >= maneuver_time { ... } *)
TestCommand ==
    /\ loop.pc = "command"
    /\ LET current_time == loop.state.mission_elapsed_time
       IN IF ~loop.maneuver_scheduled /\ current_time >= ManeuverTime
          THEN LET r == CommandManeuver(fsm, current_time)
               IN /\ fsm' = r.fsm
                  /\ loop' = [Did(loop, "command_maneuver", "control")
                                EXCEPT !.maneuver_scheduled = r.ret]
          ELSE /\ UNCHANGED fsm
               /\ loop' = [loop EXCEPT !.pc = "control"]
    /\ LoopKeeps

(* integration_test: (thrust, control_torque) gated by the governor *)
TestControl ==
    /\ loop.pc = "control" /\ loop.prog = "integration_test"
    /\ \E torque \in ControllerOutputs, force \in GuidanceOutputs :
          loop' = [Did(loop, "control", "dynamics") EXCEPT
                     !.control_torque = IF ShouldApplyControl(fsm) THEN torque ELSE Zero3,
                     !.thrust = IF ShouldApplyControl(fsm) /\ ShouldApplyThrust(fsm)
                                THEN force ELSE Zero3]
    /\ UNCHANGED fsm
    /\ LoopKeeps

(* main: thrust and control_torque taken from guidance and controller as they are *)
MainControl ==
    /\ loop.pc = "control" /\ loop.prog = "main"
    /\ \E torque \in ControllerOutputs, force \in GuidanceOutputs :
          loop' = [Did(loop, "control", "dynamics") EXCEPT
                     !.control_torque = torque, !.thrust = force]
    /\ UNCHANGED fsm
    /\ LoopKeeps

(* SpacecraftDynamics::new(Some(thrust), Some(control_torque)); RK4::new(dynamics) *)
BuildDynamics ==
    /\ loop.pc = "dynamics"
    /\ loop' = [Did(loop, "dynamics", "eop") EXCEPT
                  !.dynamics = [thrust |-> Some(loop.thrust),
                                torque |-> Some(loop.control_torque), built |-> TRUE]]
    /\ UNCHANGED fsm
    /\ LoopKeeps

(* a lookup whose error ends the program, as a ? in place of the         *)
(* unwrap_or_else would                                                  *)
LookupEOPPropagating ==
    /\ loop.pc = "eop"
    /\ \E outcome \in EOPOutcomes :
          loop' = IF outcome.ok
                  THEN [Did(loop, "eop", "log") EXCEPT !.eop = outcome.value]
                  ELSE [Did(loop, "eop", "failed") EXCEPT !.eop_error = TRUE]
    /\ UNCHANGED fsm
    /\ LoopKeeps

(* EOPData::from_epoch(current_epoch).unwrap_or_else(|_| defaults) *)
LookupEOP ==
    /\ loop.pc = "eop"
    /\ \E outcome \in EOPOutcomes :
          loop' = [Did(loop, "eop", "log") EXCEPT
                     !.eop = IF outcome.ok THEN outcome.value ELSE DefaultEOP,
                     !.eop_error = ~outcome.ok]
    /\ UNCHANGED fsm
    /\ LoopKeeps

(* if i % 600 == 0 || thrust.magnitude() > 0.0 { writer.write_record(..)?; } *)
Sampled == loop.i % SampleEvery = 0 \/ loop.thrust # Zero3

WriteRecord ==
    /\ loop.pc = "log" /\ Sampled
    /\ loop' = Did(loop, "write_record", "integrate")
    /\ UNCHANGED fsm
    /\ LoopKeeps

(* the ? of write_record: an I/O error returns from the program *)
WriteRecordFails ==
    /\ loop.pc = "log" /\ Sampled
    /\ loop' = Did(loop, "write_record", "failed")
    /\ UNCHANGED fsm
    /\ LoopKeeps

SkipRecord ==
    /\ loop.pc = "log" /\ ~Sampled
    /\ loop' = [loop EXCEPT !.pc = "integrate"]
    /\ UNCHANGED fsm
    /\ LoopKeeps

(* state = integrator.integrate(&state, dt) *)
Integrate ==
    /\ loop.pc = "integrate"
    /\ \E v \in AngVelSamples :
          loop' = [Did(loop, "integrate", IF loop.i + 1 < Steps THEN "set_time" ELSE "done")
                     EXCEPT !.state.angular_velocity = v, !.i = loop.i + 1]
    /\ UNCHANGED fsm
    /\ LoopKeeps

LoopNext ==
    \/ SetTime
    \/ TestEvaluate
    \/ TestCommand
    \/ TestControl
    \/ MainControl
    \/ BuildDynamics
    \/ LookupEOP
    \/ WriteRecord
    \/ WriteRecordFails
    \/ SkipRecord
    \/ Integrate

LoopSpec == LoopInit /\ [][LoopNext]_vars

(* The loop is a sequential program that runs on: a step that can be     *)
(* taken is taken.                                                       *)
LoopFairSpec == LoopSpec /\ WF_vars(LoopNext)

LoopTypeOK ==
    /\ loop.prog \in {"main", "integration_test"}
    /\ loop.i \in 0..Steps
    /\ loop.prog = "integration_test" => fsm.current_state \in SpacecraftState
    /\ loop.prog = "main" => fsm = NoFSM

----------------------------------------------------------------------------
(* Reading the last call *)

Evaluated == call.op = "evaluate_transition"
Commanded == call.op = "command_maneuver"
Moved(from, to) == prev.current_state = from /\ fsm.current_state = to
ModeChanged == prev.current_state # fsm.current_state
RateAbove(x) == NormSquared(call.angular_velocity) > x * x
RateBelow(x) == NormSquared(call.angular_velocity) < x * x
Dwell == call.time - call.since

----------------------------------------------------------------------------
(* C1: every change of current_state is one of the seven rows of the     *)
(* transition table; NominalOperation -> ManeuverPrep is made only by    *)
(* command_maneuver, each other row only by an evaluate_transition call  *)
(* whose evaluated state satisfies the row's condition.                  *)
C1_TransitionTable ==
    ModeChanged =>
        \/ Moved("SafeMode", "Detumbling") /\ Evaluated /\ RateAbove(10)
        \/ Moved("Detumbling", "NominalOperation") /\ Evaluated /\ RateBelow(10)
        \/ Moved("NominalOperation", "Emergency") /\ Evaluated /\ RateAbove(500)
        \/ Moved("NominalOperation", "ManeuverPrep") /\ Commanded
        \/ Moved("ManeuverPrep", "Maneuvering") /\ Evaluated /\ RateBelow(10) /\ Dwell > 5
        \/ Moved("Maneuvering", "Emergency") /\ Evaluated /\ RateAbove(500)
        \/ Moved("Emergency", "SafeMode") /\ Evaluated /\ RateBelow(10) /\ Dwell > 30

C1_Witness ==
    Moved("Maneuvering", "Emergency") /\ Evaluated /\ call.angular_velocity = <<0, 0, 501>>

(* C2: a new governor is in SafeMode, and on each rate-only row the mode *)
(* changes in the very evaluate_transition call whose state satisfies    *)
(* the condition, and is unchanged by a call whose state does not        *)
(* (the threshold itself does not satisfy it).                           *)
C2_RateRowsImmediate ==
    /\ call.op = "new" => fsm.current_state = "SafeMode"
    /\ Evaluated /\ prev.current_state = "SafeMode" =>
          fsm.current_state = IF RateAbove(10) THEN "Detumbling" ELSE "SafeMode"
    /\ Evaluated /\ prev.current_state = "Detumbling" =>
          fsm.current_state = IF RateBelow(10) THEN "NominalOperation" ELSE "Detumbling"
    /\ Evaluated /\ prev.current_state = "NominalOperation" =>
          fsm.current_state = IF RateAbove(500) THEN "Emergency" ELSE "NominalOperation"
    /\ Evaluated /\ prev.current_state = "Maneuvering" =>
          fsm.current_state = IF RateAbove(500) THEN "Emergency" ELSE "Maneuvering"

C2_Witness ==
    /\ Evaluated /\ prev.current_state = "Maneuvering"
    /\ call.angular_velocity = <<300, 400, 0>>
    /\ fsm.current_state = "Maneuvering"

(* C3: command_maneuver(t) returns true exactly when called in           *)
(* NominalOperation, and then the mode is ManeuverPrep with              *)
(* last_state_change = t; otherwise it returns false and leaves          *)
(* current_state and last_state_change as they were.                     *)
C3_CommandManeuver ==
    Commanded =>
        /\ call.ret <=> prev.current_state = "NominalOperation"
        /\ call.ret =>
              fsm.current_state = "ManeuverPrep" /\ fsm.last_state_change = call.time
        /\ ~call.ret =>
              /\ fsm.current_state = prev.current_state
              /\ fsm.last_state_change = prev.last_state_change

C3_Witness ==
    /\ Commanded /\ call.ret /\ fsm.current_state = "ManeuverPrep"
    /\ call.time # prev.last_state_change

(* C4: with non-decreasing times, Maneuvering is entered only by an      *)
(* evaluate_transition call made in ManeuverPrep on a state with         *)
(* w < 0.01 and a time more than 5 s after ManeuverPrep was entered; at  *)
(* a dwell of 5 s or less the mode stays ManeuverPrep whatever w is.     *)
C4_PrepDwell ==
    mono =>
        /\ fsm.current_state = "Maneuvering" /\ ModeChanged =>
              /\ Evaluated /\ prev.current_state = "ManeuverPrep"
              /\ RateBelow(10) /\ call.time - call.since > 5
        /\ Evaluated /\ prev.current_state = "ManeuverPrep" /\ call.time - call.since <= 5 =>
              fsm.current_state = "ManeuverPrep"

C4_Witness ==
    /\ mono /\ Evaluated /\ prev.current_state = "ManeuverPrep"
    /\ call.angular_velocity = <<9, 0, 0>> /\ call.time - call.since = 5
    /\ fsm.current_state = "ManeuverPrep"

(* C5: with non-decreasing times, Emergency is left only for SafeMode,   *)
(* only by an evaluate_transition call on a state with w < 0.01 and a    *)
(* time more than 30 s after Emergency was entered; command_maneuver     *)
(* never leaves Emergency.                                               *)
C5_EmergencyDwell ==
    mono /\ prev.current_state = "Emergency" =>
        /\ ModeChanged =>
              /\ fsm.current_state = "SafeMode" /\ Evaluated
              /\ RateBelow(10) /\ call.time - call.since > 30
        /\ Commanded => fsm.current_state = "Emergency"

C5_Witness ==
    /\ mono /\ Moved("Emergency", "SafeMode")
    /\ call.time - call.since = 31

(* C6: should_apply_control() is false exactly in SafeMode and Emergency *)
(* and true in the other four modes; should_apply_thrust() is true       *)
(* exactly in Maneuvering; so thrust implies control.                    *)
C6_Gating ==
    /\ fsm.current_state \in SpacecraftState
    /\ fsm.current_state \in {"SafeMode", "Emergency"} => ~ShouldApplyControl(fsm)
    /\ fsm.current_state \in {"Detumbling", "NominalOperation", "ManeuverPrep", "Maneuvering"}
          => ShouldApplyControl(fsm)
    /\ ShouldApplyThrust(fsm) <=> fsm.current_state = "Maneuvering"
    /\ ShouldApplyThrust(fsm) => ShouldApplyControl(fsm)

C6_Witness ==
    fsm.current_state = "Maneuvering" /\ ShouldApplyThrust(fsm) /\ ShouldApplyControl(fsm)

(* C7: with non-decreasing times, a call that prints the rejection       *)
(* notice is more than 10 s after every earlier call that printed it,    *)
(* and a rejected call that prints nothing leaves last_message_time      *)
(* unchanged.                                                            *)
C7_NoticeRateLimit ==
    mono =>
        /\ call.printed => \A s \in call.noticed : call.time - s > 10
        /\ Commanded /\ ~call.ret /\ ~call.printed =>
              fsm.last_message_time = prev.last_message_time

C7_Witness ==
    /\ mono /\ Commanded /\ call.printed
    /\ call.noticed # {} /\ \E s \in call.noticed : call.time - s = 11

(* C8: last_state_change is the time argument of the most recent call    *)
(* that changed current_state (0 if none has), and a call that does not  *)
(* change the mode leaves it unchanged.                                  *)
C8_ChangeTimestamp ==
    /\ GetLastStateChange(fsm) = change_time
    /\ ~ModeChanged => fsm.last_state_change = prev.last_state_change

C8_Witness ==
    /\ ~ModeChanged /\ call.op # "new" /\ fsm.current_state = "SafeMode"
    /\ change_time = 31 /\ call.time < change_time

----------------------------------------------------------------------------
(* Floating-point arithmetic.  The program computes in f64: every        *)
(* operation returns the exact result rounded to the nearest value with  *)
(* 53 significant bits, ties to even.  The model keeps the rounding and  *)
(* shortens the significand to MantissaBits bits; values are integer     *)
(* multiples of the smallest unit.                                       *)

MantissaBits == 4

RECURSIVE Pow2(_)
Pow2(n) == IF n = 0 THEN 1 ELSE 2 * Pow2(n - 1)

Abs(x) == IF x < 0 THEN -x ELSE x

(* The spacing of representable values around the magnitude x *)
RECURSIVE Quantum(_)
Quantum(x) == IF x < Pow2(MantissaBits) THEN 1 ELSE 2 * Quantum(x \div 2)

RoundMagnitude(x) ==
    LET q  == Quantum(x)
        lo == (x \div q) * q
        r  == x - lo
    IN  IF 2 * r < q THEN lo
        ELSE IF 2 * r > q THEN lo + q
        ELSE IF (x \div q) % 2 = 0 THEN lo ELSE lo + q

(* The element of a one-element set.  An operator that uses an argument  *)
(* in many places draws it from a one-element set, so that the argument  *)
(* is computed once.                                                     *)
Only(S) == CHOOSE x \in S : TRUE

Fl(x) == Only({ IF v < 0 THEN -RoundMagnitude(-v) ELSE RoundMagnitude(v) : v \in {x} })

FlAdd(x, y) == Fl(x + y)
FlSub(x, y) == Fl(x - y)
FlMul(x, y) == Fl(x * y)
FlDiv(x, y) == Fl(x \div y)

V3Add(u, v) == [i \in 1..3 |-> FlAdd(u[i], v[i])]
V3Sub(u, v) == [i \in 1..3 |-> FlSub(u[i], v[i])]
V3Scale(u, k) == [i \in 1..3 |-> FlMul(u[i], k)]
V3Div(u, k) == [i \in 1..3 |-> FlDiv(u[i], k)]
Cross(u, v) ==
    << FlSub(FlMul(u[2], v[3]), FlMul(u[3], v[2])),
       FlSub(FlMul(u[3], v[1]), FlMul(u[1], v[3])),
       FlSub(FlMul(u[1], v[2]), FlMul(u[2], v[1])) >>
MatVec(M, v) ==
    [i \in 1..3 |-> FlAdd(FlAdd(FlMul(M[i][1], v[1]), FlMul(M[i][2], v[2])),
                          FlMul(M[i][3], v[3]))]


----------------------------------------------------------------------------
(* State and its algebra *)

(* Variant: the quaternion components are paired one place off. *)
StateAddMisaligned(self, other) ==
    [ spacecraft           |-> self.spacecraft,
      mass                 |-> self.mass,
      inertia_tensor       |-> self.inertia_tensor,
      position             |-> V3Add(self.position, other.position),
      velocity             |-> V3Add(self.velocity, other.velocity),
      quaternion           |-> << FlAdd(self.quaternion[1], other.quaternion[1]),
                                  FlAdd(self.quaternion[2], other.quaternion[3]),
                                  FlAdd(self.quaternion[3], other.quaternion[4]),
                                  FlAdd(self.quaternion[4], other.quaternion[2]) >>,
      angular_velocity     |-> V3Add(self.angular_velocity, other.angular_velocity),
      epoch                |-> self.epoch,
      mission_elapsed_time |-> FlAdd(self.mission_elapsed_time, other.mission_elapsed_time),
      fuel_mass            |-> self.fuel_mass ]

(* Variant: the sum takes its epoch from the right-hand operand. *)
StateAddRightEpoch(self, other) ==
    [ spacecraft           |-> self.spacecraft,
      mass                 |-> self.mass,
      inertia_tensor       |-> self.inertia_tensor,
      position             |-> V3Add(self.position, other.position),
      velocity             |-> V3Add(self.velocity, other.velocity),
      quaternion           |-> [i \in 1..4 |-> FlAdd(self.quaternion[i], other.quaternion[i])],
      angular_velocity     |-> V3Add(self.angular_velocity, other.angular_velocity),
      epoch                |-> other.epoch,
      mission_elapsed_time |-> FlAdd(self.mission_elapsed_time, other.mission_elapsed_time),
      fuel_mass            |-> self.fuel_mass ]

StateAdd(self, other) ==
    Only({
    [ spacecraft           |-> a.spacecraft,
      mass                 |-> a.mass,
      inertia_tensor       |-> a.inertia_tensor,
      position             |-> V3Add(a.position, b.position),
      velocity             |-> V3Add(a.velocity, b.velocity),
      quaternion           |-> << FlAdd(a.quaternion[1], b.quaternion[1]),
                                  FlAdd(a.quaternion[2], b.quaternion[2]),
                                  FlAdd(a.quaternion[3], b.quaternion[3]),
                                  FlAdd(a.quaternion[4], b.quaternion[4]) >>,
      angular_velocity     |-> V3Add(a.angular_velocity, b.angular_velocity),
      epoch                |-> a.epoch,
      mission_elapsed_time |-> FlAdd(a.mission_elapsed_time, b.mission_elapsed_time),
      fuel_mass            |-> a.fuel_mass ]
    : a \in {self}, b \in {other} })

StateMul(self, scalar) ==
    Only({
    [ spacecraft           |-> a.spacecraft,
      mass                 |-> a.mass,
      inertia_tensor       |-> a.inertia_tensor,
      position             |-> V3Scale(a.position, k),
      velocity             |-> V3Scale(a.velocity, k),
      quaternion           |-> << FlMul(a.quaternion[1], k),
                                  FlMul(a.quaternion[2], k),
                                  FlMul(a.quaternion[3], k),
                                  FlMul(a.quaternion[4], k) >>,
      angular_velocity     |-> V3Scale(a.angular_velocity, k),
      epoch                |-> a.epoch,
      mission_elapsed_time |-> FlMul(a.mission_elapsed_time, k),
      fuel_mass            |-> a.fuel_mass ]
    : a \in {self}, k \in {scalar} })

SimpleSatMass == 100
SpacecraftMass(spacecraft) == IF spacecraft = "SimpleSat" THEN SimpleSatMass ELSE 1

ZeroMatrix == << Zero3, Zero3, Zero3 >>

(* Variant: a derivative whose mission_elapsed_time runs with the clock. *)
StateZeroRunningTime(spacecraft, now) ==
    [ spacecraft           |-> spacecraft,
      mass                 |-> SpacecraftMass(spacecraft),
      inertia_tensor       |-> ZeroMatrix,
      position             |-> Zero3,
      velocity             |-> Zero3,
      quaternion           |-> <<1, 0, 0, 0>>,
      angular_velocity     |-> Zero3,
      epoch                |-> now,
      mission_elapsed_time |-> 1,
      fuel_mass            |-> 0 ]

(* State::zero reads the wall clock for its epoch. *)
StateZero(spacecraft, now) ==
    [ spacecraft           |-> spacecraft,
      mass                 |-> SpacecraftMass(spacecraft),
      inertia_tensor       |-> ZeroMatrix,
      position             |-> Zero3,
      velocity             |-> Zero3,
      quaternion           |-> <<1, 0, 0, 0>>,
      angular_velocity     |-> Zero3,
      epoch                |-> now,
      mission_elapsed_time |-> 0,
      fuel_mass            |-> 0 ]

----------------------------------------------------------------------------
(* Equations of motion *)

Panic == [panic |-> TRUE]
Returned(x) == [panic |-> FALSE, value |-> x]

Det(M) ==
    M[1][1] * (M[2][2] * M[3][3] - M[3][2] * M[2][3])
    - M[1][2] * (M[2][1] * M[3][3] - M[3][1] * M[2][3])
    + M[1][3] * (M[2][1] * M[3][2] - M[3][1] * M[2][2])

Adjugate(M) ==
    << << M[2][2] * M[3][3] - M[2][3] * M[3][2],
          M[1][3] * M[3][2] - M[1][2] * M[3][3],
          M[1][2] * M[2][3] - M[1][3] * M[2][2] >>,
       << M[2][3] * M[3][1] - M[2][1] * M[3][3],
          M[1][1] * M[3][3] - M[1][3] * M[3][1],
          M[1][3] * M[2][1] - M[1][1] * M[2][3] >>,
       << M[2][1] * M[3][2] - M[2][2] * M[3][1],
          M[1][2] * M[3][1] - M[1][1] * M[3][2],
          M[1][1] * M[2][2] - M[1][2] * M[2][1] >> >>

(* Matrix3::try_inverse: None exactly when the determinant is zero. *)
TryInverse(M) ==
    IF Det(M) = 0 THEN None
    ELSE Some([i \in 1..3 |-> [j \in 1..3 |-> FlDiv(Adjugate(M)[i][j], Det(M))]])

(* calculate_torque, the gravity-gradient torque z x (I z).  Stand-in,   *)
(* in scaled units: z is the position itself, without the rotation into *)
(* the body frame, the normalisation and the factor 3 GM / (2 r^3).      *)
CalculateTorque(state) ==
    Cross(state.position, MatVec(state.inertia_tensor, state.position))

(* external_torque.unwrap_or_else(|| calculate_torque(state)); the       *)
(* Option::unwrap of try_inverse panics on None.                         *)
AngularAcceleration(state, external_torque) ==
    LET inertia == state.inertia_tensor
        w       == state.angular_velocity
        torque  == IF external_torque.some THEN external_torque.value
                   ELSE CalculateTorque(state)
        gyro    == Cross(w, MatVec(inertia, w))
        inverse == TryInverse(inertia)
    IN  IF inverse.some
        THEN Returned(MatVec(inverse.value, V3Sub(torque, gyro)))
        ELSE Panic

ComputeQuaternionDerivative(q, w) ==
    << -FlDiv(FlAdd(FlAdd(FlMul(q[2], w[1]), FlMul(q[3], w[2])), FlMul(q[4], w[3])), 2),
       FlDiv(FlSub(FlAdd(FlMul(q[1], w[1]), FlMul(q[3], w[3])), FlMul(q[4], w[2])), 2),
       FlDiv(FlSub(FlAdd(FlMul(q[1], w[2]), FlMul(q[4], w[1])), FlMul(q[2], w[3])), 2),
       FlDiv(FlSub(FlAdd(FlMul(q[1], w[3]), FlMul(q[2], w[2])), FlMul(q[3], w[1])), 2) >>

(* Stand-ins for the force models, in scaled units: an attraction toward *)
(* the origin and a drag against the velocity.                           *)
GravityAcceleration(position) == V3Scale(position, -1)
DragForce(spacecraft, position, velocity) == V3Scale(velocity, -1)

(* SpacecraftDynamics::compute_derivative; now is the wall-clock reading *)
(* taken by State::zero.                                                 *)
ComputeDerivative(eom, state, now) ==
    Only({
    LET zero     == StateZero(s.spacecraft, now)
        natural  == V3Add(GravityAcceleration(s.position),
                          V3Div(DragForce(s.spacecraft, s.position, s.velocity), s.mass))
        velocity == IF eom.thrust.some
                    THEN V3Add(natural, V3Div(eom.thrust.value, s.mass))
                    ELSE natural
        angular  == AngularAcceleration(s, eom.torque)
    IN  IF angular.panic THEN Panic
        ELSE Returned([ zero EXCEPT
                 !.position = s.velocity,
                 !.velocity = velocity,
                 !.angular_velocity = angular.value,
                 !.quaternion = ComputeQuaternionDerivative(s.quaternion,
                                                            s.angular_velocity) ])
    : s \in {state} })

----------------------------------------------------------------------------
(* The integrator.  An integration is recorded with the states at which  *)
(* the derivative was evaluated, in order; clock is the wall-clock       *)
(* reading at the first evaluation, and each later one reads one more.   *)

Unwound(evals) == [panic |-> TRUE, evals |-> evals]

(* Variant: the third stage starts from the first slope. *)
RK4IntegrateReusedSlope(eom, state, dt, clock) ==
    Only({ IF k1.panic THEN Unwound(<<state>>) ELSE
    Only({
    Only({ IF k2.panic THEN Unwound(<<state, state2>>) ELSE
    Only({
    Only({ IF k3.panic THEN Unwound(<<state, state2, state3>>) ELSE
    Only({
    Only({ IF k4.panic THEN Unwound(<<state, state2, state3, state4>>) ELSE
        [ panic |-> FALSE,
          evals |-> <<state, state2, state3, state4>>,
          value |-> StateAdd(state,
                        StateMul(StateAdd(StateAdd(StateAdd(k1.value, StateMul(k2.value, 2)),
                                                   StateMul(k3.value, 2)), k4.value),
                                 FlDiv(dt, 6))) ]
      : k4 \in {ComputeDerivative(eom, state4, clock + 3)} })
      : state4 \in {StateAdd(state, StateMul(k3.value, dt))} })
      : k3 \in {ComputeDerivative(eom, state3, clock + 2)} })
      : state3 \in {StateAdd(state, StateMul(k1.value, FlDiv(dt, 2)))} })
      : k2 \in {ComputeDerivative(eom, state2, clock + 1)} })
      : state2 \in {StateAdd(state, StateMul(k1.value, FlDiv(dt, 2)))} })
      : k1 \in {ComputeDerivative(eom, state, clock)} })

(* RK4::integrate.  The bindings read from the last line upward: k1,     *)
(* state2, k2, state3, k3, state4, k4, each computed once, in the order  *)
(* of the code; the result is at the top.                                *)
RK4Integrate(eom, state, dt, clock) ==
    Only({ IF k1.panic THEN Unwound(<<state>>) ELSE
    Only({
    Only({ IF k2.panic THEN Unwound(<<state, state2>>) ELSE
    Only({
    Only({ IF k3.panic THEN Unwound(<<state, state2, state3>>) ELSE
    Only({
    Only({ IF k4.panic THEN Unwound(<<state, state2, state3, state4>>) ELSE
        [ panic |-> FALSE,
          evals |-> <<state, state2, state3, state4>>,
          value |-> StateAdd(state,
                        StateMul(StateAdd(StateAdd(StateAdd(k1.value, StateMul(k2.value, 2)),
                                                   StateMul(k3.value, 2)), k4.value),
                                 FlDiv(dt, 6))) ]
      : k4 \in {ComputeDerivative(eom, state4, clock + 3)} })
      : state4 \in {StateAdd(state, StateMul(k3.value, dt))} })
      : k3 \in {ComputeDerivative(eom, state3, clock + 2)} })
      : state3 \in {StateAdd(state, StateMul(k2.value, FlDiv(dt, 2)))} })
      : k2 \in {ComputeDerivative(eom, state2, clock + 1)} })
      : state2 \in {StateAdd(state, StateMul(k1.value, FlDiv(dt, 2)))} })
      : k1 \in {ComputeDerivative(eom, state, clock)} })

----------------------------------------------------------------------------
(* Applications of the State algebra, the equations of motion and the    *)
(* integrator to sample inputs                                           *)

MaxScalar == 2
ScalarSamples == (-MaxScalar)..MaxScalar

IdentityMatrix == << <<1, 0, 0>>, <<0, 1, 0>>, <<0, 0, 1>> >>
ShearMatrix    == << <<2, 1, 0>>, <<1, 1, 0>>, <<0, 0, 1>> >>    \* determinant 1
RankTwoMatrix  == << <<1, 1, 0>>, <<1, 1, 0>>, <<0, 0, 1>> >>    \* determinant 0

StateSamples ==
    { [ spacecraft |-> "SimpleSat", mass |-> 2, inertia_tensor |-> IdentityMatrix,
        position |-> <<15, 0, -3>>, velocity |-> <<0, 6, 0>>,
        quaternion |-> <<1, 0, 0, 0>>, angular_velocity |-> <<0, 0, 2>>,
        epoch |-> 100, mission_elapsed_time |-> 0, fuel_mass |-> 1 ],
      [ spacecraft |-> "OtherSat", mass |-> 1, inertia_tensor |-> ShearMatrix,
        position |-> <<14, 5, 11>>, velocity |-> <<-2, 0, 4>>,
        quaternion |-> <<0, 8, 0, 0>>, angular_velocity |-> <<0, 0, 0>>,
        epoch |-> 200, mission_elapsed_time |-> 5, fuel_mass |-> 1 ],
      [ spacecraft |-> "SimpleSat", mass |-> 2, inertia_tensor |-> ZeroMatrix,
        position |-> <<-12, 1, 7>>, velocity |-> <<13, 2, 2>>,
        quaternion |-> <<1, 0, 0, 0>>, angular_velocity |-> <<0, 0, 4>>,
        epoch |-> 300, mission_elapsed_time |-> 9, fuel_mass |-> 1 ],
      [ spacecraft |-> "SimpleSat", mass |-> 1, inertia_tensor |-> RankTwoMatrix,
        position |-> <<9, -16, 3>>, velocity |-> <<1, 1, -15>>,
        quaternion |-> <<0, 0, 1, 0>>, angular_velocity |-> <<2, 0, 0>>,
        epoch |-> 100, mission_elapsed_time |-> 16, fuel_mass |-> 0 ] }

DtSamples == {6, 12}                      \* dt/2 and dt/6 are representable
EomSamples == [ thrust : {None, Some(<<0, 0, 4>>)},
                torque : {Some(Zero3), Some(<<0, 0, 2>>)} ]
ClockSamples == {1000, 2000, 3000}

AlgebraInit ==
    /\ fsm = New
    /\ prev = New
    /\ call = [op |-> "new", angular_velocity |-> NoVector, time |-> 0,
               ret |-> FALSE, printed |-> FALSE, since |-> 0, noticed |-> {}]
    /\ mono = TRUE
    /\ change_time = 0
    /\ notices = {}
    /\ loop = NoLoop
    /\ \E a \in StateSamples, b \in StateSamples, c \in StateSamples, k \in ScalarSamples :
          calc = [op |-> "input", a |-> a, b |-> b, c |-> c, k |-> k]

CalcKeeps == UNCHANGED <<fsm, prev, call, mono, change_time, notices, loop>>

AddStates ==
    /\ calc.op = "input"
    /\ calc' = [op |-> "add", a |-> calc.a, b |-> calc.b, out |-> StateAdd(calc.a, calc.b)]
    /\ CalcKeeps

ScaleState ==
    /\ calc.op = "input"
    /\ calc' = [op |-> "mul", a |-> calc.a, k |-> calc.k, out |-> StateMul(calc.a, calc.k)]
    /\ CalcKeeps

Associate ==
    /\ calc.op = "input"
    /\ calc' = [op |-> "associate", a |-> calc.a, b |-> calc.b, c |-> calc.c,
                left  |-> StateAdd(StateAdd(calc.a, calc.b), calc.c),
                right |-> StateAdd(calc.a, StateAdd(calc.b, calc.c))]
    /\ CalcKeeps

Distribute ==
    /\ calc.op = "input"
    /\ calc' = [op |-> "distribute", a |-> calc.a, b |-> calc.b, k |-> calc.k,
                left  |-> StateMul(StateAdd(calc.a, calc.b), calc.k),
                right |-> StateAdd(StateMul(calc.a, calc.k), StateMul(calc.b, calc.k))]
    /\ CalcKeeps

AlgebraNext == AddStates \/ ScaleState \/ Associate \/ Distribute

AlgebraSpec == AlgebraInit /\ [][AlgebraNext]_vars

DynamicsInit ==
    /\ fsm = New
    /\ prev = New
    /\ call = [op |-> "new", angular_velocity |-> NoVector, time |-> 0,
               ret |-> FALSE, printed |-> FALSE, since |-> 0, noticed |-> {}]
    /\ mono = TRUE
    /\ change_time = 0
    /\ notices = {}
    /\ loop = NoLoop
    /\ \E state \in StateSamples, eom \in EomSamples, dt \in DtSamples :
          calc = [op |-> "input", state |-> state, eom |-> eom, dt |-> dt]

(* Two integrations of the same (eom, state, dt), the second at a later *)
(* wall-clock time.                                                      *)
IntegrateTwice ==
    /\ calc.op = "input"
    /\ \E clock \in ClockSamples :
          calc' = [op |-> "integrate", eom |-> calc.eom, state |-> calc.state,
                   dt |-> calc.dt, clock |-> clock,
                   first  |-> RK4Integrate(calc.eom, calc.state, calc.dt, clock),
                   second |-> RK4Integrate(calc.eom, calc.state, calc.dt, clock + 500)]
    /\ CalcKeeps

(* angular_acceleration(state, external_torque), with the torque of the *)
(* dynamics or with none                                                 *)
Accelerate ==
    /\ calc.op = "input"
    /\ \E external_torque \in {calc.eom.torque, None} :
          calc' = [op |-> "angular_acceleration", state |-> calc.state,
                   torque |-> external_torque,
                   out |-> AngularAcceleration(calc.state, external_torque)]
    /\ CalcKeeps

DynamicsNext == IntegrateTwice \/ Accelerate

DynamicsSpec == DynamicsInit /\ [][DynamicsNext]_vars

----------------------------------------------------------------------------
(* Claims about the State algebra, the integrator and the dynamics *)

Combine(op, x, y) == IF op = "add" THEN Fl(x + y) ELSE Fl(x * y)

Componentwise(op, out, x, y) ==
    /\ \A i \in 1..3 :
          /\ out.position[i] = Combine(op, x.position[i], y.position[i])
          /\ out.velocity[i] = Combine(op, x.velocity[i], y.velocity[i])
          /\ out.angular_velocity[i] = Combine(op, x.angular_velocity[i], y.angular_velocity[i])
    /\ \A i \in 1..4 : out.quaternion[i] = Combine(op, x.quaternion[i], y.quaternion[i])
    /\ out.mission_elapsed_time = Combine(op, x.mission_elapsed_time, y.mission_elapsed_time)

CarriedFrom(out, x) ==
    /\ out.mass = x.mass
    /\ out.inertia_tensor = x.inertia_tensor
    /\ out.spacecraft = x.spacecraft
    /\ out.epoch = x.epoch

Scalar(k) ==
    [ position |-> <<k, k, k>>, velocity |-> <<k, k, k>>, angular_velocity |-> <<k, k, k>>,
      quaternion |-> <<k, k, k, k>>, mission_elapsed_time |-> k ]

(* C13: a + b and a * k carry mass, inertia_tensor, spacecraft and epoch *)
(* from the left-hand operand a, combine position, velocity, the four    *)
(* quaternion components and angular_velocity component by component,    *)
(* and add, respectively scale, mission_elapsed_time.                    *)
C13_AlgebraFrame ==
    /\ calc.op = "add" =>
          /\ CarriedFrom(calc.out, calc.a)
          /\ Componentwise("add", calc.out, calc.a, calc.b)
    /\ calc.op = "mul" =>
          /\ CarriedFrom(calc.out, calc.a)
          /\ Componentwise("mul", calc.out, calc.a, Scalar(calc.k))

C13_Witness ==
    /\ calc.op = "add"
    /\ calc.a.epoch # calc.b.epoch
    /\ calc.a.mass # calc.b.mass
    /\ calc.a.spacecraft # calc.b.spacecraft
    /\ calc.a.inertia_tensor # calc.b.inertia_tensor
    /\ calc.out.position # calc.a.position
    /\ calc.out.mission_elapsed_time # calc.a.mission_elapsed_time

(* The slope at the i-th evaluation point of a recorded integration,     *)
(* recomputed at another wall-clock time.                                *)
Slope(run, i) == ComputeDerivative(calc.eom, run.evals[i], 0).value

(* C14: an integration that returns has evaluated the derivative four    *)
(* times, at s, s + k1*(dt/2), s + k2*(dt/2) and s + k3*dt in that order,*)
(* and returns s + (k1 + 2*k2 + 2*k3 + k4)*(dt/6); a second integration  *)
(* of the same (eom, s, dt) at another time returns the same.            *)
C14_RK4Stages ==
    calc.op = "integrate" /\ ~calc.first.panic =>
        LET run == calc.first
            s   == calc.state
            k1  == Slope(run, 1)
            k2  == Slope(run, 2)
            k3  == Slope(run, 3)
            k4  == Slope(run, 4)
            sum == StateAdd(StateAdd(StateAdd(k1, StateMul(k2, 2)), StateMul(k3, 2)), k4)
        IN  /\ Len(run.evals) = 4
            /\ run.evals[1] = s
            /\ run.evals[2] = StateAdd(s, StateMul(k1, FlDiv(calc.dt, 2)))
            /\ run.evals[3] = StateAdd(s, StateMul(k2, FlDiv(calc.dt, 2)))
            /\ run.evals[4] = StateAdd(s, StateMul(k3, calc.dt))
            /\ run.value = StateAdd(s, StateMul(sum, FlDiv(calc.dt, 6)))
            /\ calc.second = calc.first

C14_Witness ==
    /\ calc.op = "integrate"
    /\ ~calc.first.panic
    /\ calc.first.evals[2] # calc.first.evals[3]
    /\ calc.first.value.position # calc.state.position
    /\ calc.first.value.quaternion # calc.state.quaternion

(* C28: RK4::integrate over SpacecraftDynamics leaves                    *)
(* mission_elapsed_time, epoch, mass, inertia_tensor, fuel_mass and the  *)
(* spacecraft reference of the input state unchanged in the returned     *)
(* state and in every stage state, and every slope has                   *)
(* mission_elapsed_time zero.                                            *)
FrameKept(out, x) ==
    /\ CarriedFrom(out, x)
    /\ out.mission_elapsed_time = x.mission_elapsed_time
    /\ out.fuel_mass = x.fuel_mass

RunKeepsFrame(run) ==
    /\ \A i \in 1..Len(run.evals) : FrameKept(run.evals[i], calc.state)
    /\ ~run.panic =>
          /\ FrameKept(run.value, calc.state)
          /\ \A i \in 1..Len(run.evals) : Slope(run, i).mission_elapsed_time = 0

C28_IntegrateFrame ==
    calc.op = "integrate" => RunKeepsFrame(calc.first) /\ RunKeepsFrame(calc.second)

C28_Witness ==
    /\ calc.op = "integrate"
    /\ ~calc.first.panic
    /\ calc.state.mission_elapsed_time > 0
    /\ calc.state.fuel_mass > 0
    /\ calc.state.inertia_tensor # ZeroMatrix
    /\ calc.state.epoch # calc.clock
    /\ calc.first.value.velocity # calc.state.velocity

(* The continuous fields of a State as one flat vector *)
Flat(s) == << s.position[1], s.position[2], s.position[3],
              s.velocity[1], s.velocity[2], s.velocity[3],
              s.quaternion[1], s.quaternion[2], s.quaternion[3], s.quaternion[4],
              s.angular_velocity[1], s.angular_velocity[2], s.angular_velocity[3] >>

(* The magnitude of the exact terms of each side of a law, per component *)
TermMagnitude(i) ==
    IF calc.op = "associate"
    THEN Abs(Flat(calc.a)[i]) + Abs(Flat(calc.b)[i]) + Abs(Flat(calc.c)[i])
    ELSE (Abs(Flat(calc.a)[i]) + Abs(Flat(calc.b)[i])) * Abs(calc.k)

LawApplied == calc.op \in {"associate", "distribute"}

Singular(state) == Det(state.inertia_tensor) = 0

(* C20: with a singular inertia tensor angular_acceleration, and with it *)
(* the integration, returns a value (undefined/NaN) and does not abort.  *)
C20_SingularReturns ==
    /\ (calc.op = "angular_acceleration" /\ Singular(calc.state)) => ~calc.out.panic
    /\ (calc.op = "integrate" /\ Singular(calc.state)) => ~calc.first.panic

(* C30, the dynamics alone: an external torque, when given, replaces the *)
(* gravity-gradient torque and is not added to it; when none is given    *)
(* the gravity-gradient torque is the torque used.                       *)
Accelerated == calc.op = "angular_acceleration" /\ ~calc.out.panic
TorqueUsed(state, torque) ==
    MatVec(TryInverse(state.inertia_tensor).value,
           V3Sub(torque, Cross(state.angular_velocity,
                               MatVec(state.inertia_tensor, state.angular_velocity))))
C30_ExternalReplaces ==
    Accelerated =>
        calc.out.value = TorqueUsed(calc.state, IF calc.torque.some THEN calc.torque.value
                                                ELSE CalculateTorque(calc.state))

----------------------------------------------------------------------------
(* Apsis-targeting guidance.  Lengths in metres, speeds in metres per    *)
(* second, forces in newtons.  The apsides, the distance from the centre *)
(* and the vis-viva target speed of a flight condition are not           *)
(* recomputed from (r_current, v_current): a flight condition lists      *)
(* them, and every combination of the sampled values is considered.      *)

ApsisTolerance == 100
MaxDeltaV == 100

RECURSIVE SqrtBetween(_, _, _)
SqrtBetween(n, lo, hi) ==
    IF lo = hi THEN lo
    ELSE LET mid == (lo + hi + 1) \div 2
         IN  IF mid * mid <= n THEN SqrtBetween(n, mid, hi) ELSE SqrtBetween(n, lo, mid - 1)

Magnitude(v) == SqrtBetween(NormSquared(v), 0, 46340)

IsNearApsis(flight, tolerance) ==
    [ at_apogee  |-> Abs(flight.r_mag - flight.ra) < tolerance,
      at_perigee |-> Abs(flight.r_mag - flight.rp) < tolerance ]

Min(x, y) == IF x <= y THEN x ELSE y

(* Variant: an apsis exactly 100 m from the target still needs a burn. *)
GetDesiredForceTightTolerance(self, flight, time_since_start) ==
    IF time_since_start < self.start_time THEN Zero3
    ELSE
    LET should_burn ==
            IF self.apsis_type = "Perigee"
            THEN Abs(flight.rp - self.target_radius) >= ApsisTolerance
            ELSE Abs(flight.ra - self.target_radius) >= ApsisTolerance
        near == IsNearApsis(flight, ApsisTolerance)
        v == Magnitude(flight.v_current)
        delta_v == flight.target_v - v
        burn_magnitude == IF delta_v < 0 THEN -Min(Abs(delta_v), MaxDeltaV)
                          ELSE Min(Abs(delta_v), MaxDeltaV)
    IN  IF ~should_burn THEN Zero3
        ELSE IF \/ self.apsis_type = "Perigee" /\ near.at_apogee
                \/ self.apsis_type = "Apogee" /\ near.at_perigee
        THEN [i \in 1..3 |-> (flight.v_current[i] * burn_magnitude * SimpleSatMass) \div v]
        ELSE Zero3

(* Variant: the speed change is not limited. *)
GetDesiredForceUnclamped(self, flight, time_since_start) ==
    IF time_since_start < self.start_time THEN Zero3
    ELSE
    LET should_burn ==
            IF self.apsis_type = "Perigee"
            THEN Abs(flight.rp - self.target_radius) > ApsisTolerance
            ELSE Abs(flight.ra - self.target_radius) > ApsisTolerance
        near == IsNearApsis(flight, ApsisTolerance)
        v == Magnitude(flight.v_current)
        delta_v == flight.target_v - v
    IN  IF ~should_burn THEN Zero3
        ELSE IF \/ self.apsis_type = "Perigee" /\ near.at_apogee
                \/ self.apsis_type = "Apogee" /\ near.at_perigee
        THEN [i \in 1..3 |-> (flight.v_current[i] * delta_v * SimpleSatMass) \div v]
        ELSE Zero3

GetDesiredForce(self, flight, time_since_start) ==
    IF time_since_start < self.start_time THEN Zero3
    ELSE
    LET should_burn ==
            IF self.apsis_type = "Perigee"
            THEN Abs(flight.rp - self.target_radius) > ApsisTolerance
            ELSE Abs(flight.ra - self.target_radius) > ApsisTolerance
        near == IsNearApsis(flight, ApsisTolerance)
        v == Magnitude(flight.v_current)
        delta_v == flight.target_v - v
        burn_magnitude == IF delta_v < 0 THEN -Min(Abs(delta_v), MaxDeltaV)
                          ELSE Min(Abs(delta_v), MaxDeltaV)
    IN  IF ~should_burn THEN Zero3
        ELSE IF \/ self.apsis_type = "Perigee" /\ near.at_apogee
                \/ self.apsis_type = "Apogee" /\ near.at_perigee
        THEN [i \in 1..3 |-> (flight.v_current[i] * burn_magnitude * SimpleSatMass) \div v]
        ELSE Zero3

StartDelay == 10
TargetRadius == 7200000
ApsisTypes == {"Perigee", "Apogee"}
GuidanceSamples ==
    [ target_radius : {TargetRadius}, apsis_type : ApsisTypes, start_time : {0, StartDelay} ]
GuidanceTimes == {0, StartDelay - 1, StartDelay}

(* Apogee radii at, 100 m from, 101 m from and far below the target;     *)
(* perigee radii far below, 100 m below and 101 m below the target;      *)
(* distances near the apogee, 99 m and 100 m from the low perigee, and   *)
(* in between; speeds of 7500 m/s; target speeds that differ from the    *)
(* speed by 0, +60, +250, -100 and -150 m/s.                             *)
FlightSamples ==
    [ ra       : {TargetRadius, TargetRadius + 100, TargetRadius + 101, TargetRadius - 300000},
      rp       : {6900000, TargetRadius - 100, TargetRadius - 101},
      r_mag    : {TargetRadius + 50, 6900099, 6900100, 7000000},
      v_current : {<<0, 7500, 0>>, <<4500, 6000, 0>>, <<0, 0, -7500>>},
      target_v : {7500, 7560, 7750, 7400, 7350} ]

GuidanceInit ==
    /\ fsm = New
    /\ prev = New
    /\ call = [op |-> "new", angular_velocity |-> NoVector, time |-> 0,
               ret |-> FALSE, printed |-> FALSE, since |-> 0, noticed |-> {}]
    /\ mono = TRUE
    /\ change_time = 0
    /\ notices = {}
    /\ loop = NoLoop
    /\ \E g \in GuidanceSamples, flight \in FlightSamples, t \in GuidanceTimes :
          calc = [op |-> "input", self |-> g, flight |-> flight, time_since_start |-> t]

GetDesiredForceCall ==
    /\ calc.op = "input"
    /\ calc' = [op |-> "get_desired_force", self |-> calc.self, flight |-> calc.flight,
                time_since_start |-> calc.time_since_start,
                out |-> GetDesiredForce(calc.self, calc.flight, calc.time_since_start)]
    /\ CalcKeeps

GuidanceNext == GetDesiredForceCall

GuidanceSpec == GuidanceInit /\ [][GuidanceNext]_vars

GuidanceCalled == calc.op = "get_desired_force"

TargetedApsis == IF calc.self.apsis_type = "Perigee" THEN calc.flight.rp ELSE calc.flight.ra
OppositeApsis == IF calc.self.apsis_type = "Perigee" THEN calc.flight.ra ELSE calc.flight.rp

(* C16: get_desired_force returns the zero force whenever                *)
(* time_since_start < start_time, whatever the position and velocity,    *)
(* and whenever the targeted apsis radius is within 100 m of the target  *)
(* radius.                                                               *)
C16_ZeroForce ==
    GuidanceCalled =>
        /\ calc.time_since_start < calc.self.start_time => calc.out = Zero3
        /\ Abs(TargetedApsis - calc.self.target_radius) <= 100 => calc.out = Zero3

C16_Witness ==
    /\ GuidanceCalled
    /\ calc.time_since_start >= calc.self.start_time
    /\ Abs(TargetedApsis - calc.self.target_radius) = 100
    /\ Abs(calc.flight.r_mag - OppositeApsis) < 100
    /\ calc.flight.target_v # Magnitude(calc.flight.v_current)
    /\ calc.out = Zero3

Collinear(u, v) ==
    /\ u[2] * v[3] = u[3] * v[2]
    /\ u[3] * v[1] = u[1] * v[3]
    /\ u[1] * v[2] = u[2] * v[1]

(* C17: a non-zero force is returned only when the vehicle is within     *)
(* 100 m of the apsis opposite to the targeted one; a returned force is  *)
(* parallel to the velocity and its magnitude is at most 100 m/s times   *)
(* the spacecraft mass.                                                  *)
C17_BurnAtOppositeApsis ==
    GuidanceCalled =>
        /\ calc.out # Zero3 => Abs(calc.flight.r_mag - OppositeApsis) <= 100
        /\ Collinear(calc.out, calc.flight.v_current)
        /\ NormSquared(calc.out) <= (100 * SimpleSatMass) * (100 * SimpleSatMass)

C17_Witness ==
    /\ GuidanceCalled
    /\ calc.out # Zero3
    /\ calc.flight.target_v - Magnitude(calc.flight.v_current) < -100
    /\ calc.flight.v_current[1] # 0 /\ calc.flight.v_current[2] # 0
    /\ NormSquared(calc.out) = (100 * SimpleSatMass) * (100 * SimpleSatMass)

----------------------------------------------------------------------------
(* Attitude controller: the saturation of the control torque.  Torques   *)
(* are in hundredths of a newton metre.  A saturated torque is the raw   *)
(* torque times a ratio, kept as numerators over one denominator.  The   *)
(* raw torque of the geometric control law is an input.                  *)

MaxTorque == 100

(* 100 * exp(-x / 100), rounded, at the sampled magnitudes above 1 N m *)
ExpNeg(x) ==
    CASE x = 101 -> 36
      [] x = 125 -> 29
      [] x = 150 -> 22
      [] x = 200 -> 14
      [] x = 300 -> 5
      [] x = 400 -> 2

(* Variant: the exponential enters the scale with the wrong sign. *)
SaturateSignSlip(control_torque) ==
    LET torque_mag == Magnitude(control_torque)
    IN  IF torque_mag > MaxTorque
        THEN [ num |-> [i \in 1..3 |-> control_torque[i] * (MaxTorque + ExpNeg(torque_mag))],
               den |-> torque_mag ]
        ELSE [ num |-> control_torque, den |-> 1 ]

Saturate(control_torque) ==
    LET torque_mag == Magnitude(control_torque)
    IN  IF torque_mag > MaxTorque
        THEN [ num |-> [i \in 1..3 |-> control_torque[i] * (MaxTorque - ExpNeg(torque_mag))],
               den |-> torque_mag ]
        ELSE [ num |-> control_torque, den |-> 1 ]

RawTorqueSamples ==
    { Zero3, <<50, 0, 0>>, <<0, 99, 0>>, <<60, 80, 0>>, <<0, 101, 0>>, <<75, 100, 0>>,
      <<0, 0, -150>>, <<120, 160, 0>>, <<0, -300, 0>>, <<240, 320, 0>> }

ControllerInit ==
    /\ fsm = New
    /\ prev = New
    /\ call = [op |-> "new", angular_velocity |-> NoVector, time |-> 0,
               ret |-> FALSE, printed |-> FALSE, since |-> 0, noticed |-> {}]
    /\ mono = TRUE
    /\ change_time = 0
    /\ notices = {}
    /\ loop = NoLoop
    /\ \E raw \in RawTorqueSamples, other \in RawTorqueSamples :
          calc = [op |-> "input", raw |-> raw, other |-> other]

(* Two calls of compute_control_torque, with raw torques raw and other *)
ComputeControlTorqueCalls ==
    /\ calc.op = "input"
    /\ calc' = [op |-> "compute_control_torque", raw |-> calc.raw, other |-> calc.other,
                out |-> Saturate(calc.raw), other_out |-> Saturate(calc.other)]
    /\ CalcKeeps

ControllerNext == ComputeControlTorqueCalls

ControllerSpec == ControllerInit /\ [][ControllerNext]_vars

ControlCalled == calc.op = "compute_control_torque"

(* The magnitude of a torque given as numerators over a denominator *)
OutMagnitude(torque) == Magnitude(torque.num) \div torque.den

SameDirection(torque, raw) ==
    /\ Collinear(torque.num, raw)
    /\ \A i \in 1..3 : torque.num[i] * raw[i] >= 0
    /\ (raw # Zero3) => (torque.num # Zero3)

(* C19: the saturation is monotonic: of two raw torques the one of       *)
(* larger magnitude never yields the smaller output magnitude, also      *)
(* across the 1 N m threshold; and the output has the direction of the   *)
(* raw torque.                                                           *)
C19_MonotonicSaturation ==
    ControlCalled =>
        /\ Magnitude(calc.raw) <= Magnitude(calc.other) =>
               OutMagnitude(calc.out) <= OutMagnitude(calc.other_out)
        /\ SameDirection(calc.out, calc.raw)

(* The direction part of C19 *)
C19_DirectionKept == ControlCalled => SameDirection(calc.out, calc.raw)

----------------------------------------------------------------------------
(* The EOP cache: EOPManager, the process-wide EOP_MANAGER / INIT_STATUS *)
(* pair and EOPData::try_from.  Sample timestamps are Unix seconds, an   *)
(* epoch is given in half seconds (to_unix_seconds() as i64 drops the    *)
(* fraction), Utc::now() is in hours.  The EOP scalars of the samples    *)
(* are integers chosen so that every interpolation below is exact.       *)

CACHE_DURATION_HOURS == 24

Done == Ok(<< >>)                                       \* Ok(())

EOPScaled(x) ==
    [x_pole |-> x, y_pole |-> 2 * x, ut1_utc |-> -x, lod |-> x + 20,
     ddpsi |-> -3 * x, ddeps |-> 40 - x]

(* one row of the CSV: what the reader returns for it (its number of     *)
(* fields or a csv::Error) and what its fields parse to                  *)
GoodRow(t, x) == [read |-> Ok(7), parsed |-> Ok([t |-> t, eop |-> EOPScaled(x)])]
ShortRow == [read |-> Ok(3), parsed |-> Err("InvalidEpoch")]
MalformedRow == [read |-> Ok(7), parsed |-> Err("ParseFloatError")]

GoodFile == <<GoodRow(10, 100), ShortRow, GoodRow(20, 300), GoodRow(30, 400)>>
NewerFile == <<GoodRow(20, 300), GoodRow(30, 400), GoodRow(40, 600)>>
BrokenFile == <<GoodRow(10, 100), MalformedRow, GoodRow(20, 300)>>
Files == {GoodFile, NewerFile, BrokenFile}

(* download_eop_data: the body written to the cache file, or an error *)
NetOutcomes ==
    {Ok(file) : file \in Files} \cup {Err("HttpForbidden"), Err("ReqwestError"), Err("IoError")}

EmptyTable == [t \in {} |-> NoEOP]                      \* BTreeMap::new()
Insert(table, t, eop) ==
    [k \in (DOMAIN table) \cup {t} |-> IF k = t THEN eop ELSE table[k]]
IsEmpty(table) == DOMAIN table = {}

(* EOPManager::new() and the file system it works on *)
NewManager == [last_update |-> None, eop_data |-> EmptyTable]
NewWorld == [manager |-> NewManager, cache_file |-> None]

(* the loop of parse_eop_data_from_bytes over rdr.records(), from row i *)
RECURSIVE ParseRows(_, _, _)
ParseRows(table, data, i) ==
    IF i > Len(data)
    THEN [eop_data |-> table,
          result |-> IF IsEmpty(table) THEN Err("MissingEOPData") ELSE Done]
    ELSE IF ~data[i].read.ok
         THEN [eop_data |-> table, result |-> data[i].read]
         ELSE IF data[i].read.value < 7
              THEN ParseRows(table, data, i + 1)
              ELSE IF ~data[i].parsed.ok
                   THEN [eop_data |-> table, result |-> data[i].parsed]
                   ELSE ParseRows(Insert(table, data[i].parsed.value.t,
                                         data[i].parsed.value.eop), data, i + 1)

(* self.eop_data.clear(), then the rows *)
ParseEOPDataFromBytes(self, data) ==
    Only({ [self |-> [self EXCEPT !.eop_data = p.eop_data], result |-> p.result] :
           p \in {ParseRows(EmptyTable, data, 1)} })

ParseEOPData(w) ==
    IF ~w.cache_file.some
    THEN [w |-> w, result |-> Err("IoError")]
    ELSE Only({ [w |-> [w EXCEPT !.manager = p.self], result |-> p.result] :
                p \in {ParseEOPDataFromBytes(w.manager, w.cache_file.value)} })

DownloadEOPData(w, net) ==
    IF net.ok
    THEN [w |-> [w EXCEPT !.cache_file = Some(net.value)], result |-> Done]
    ELSE [w |-> w, result |-> net]

LoadEmbeddedData(w, embedded) ==
    Only({ [w |-> [w EXCEPT !.manager = p.self], result |-> p.result] :
           p \in {ParseEOPDataFromBytes(w.manager, embedded)} })

(* download, parse, stamp: the body shared by refresh_data and by        *)
(* update_cache_if_needed when should_update                             *)
DownloadParseStamp(w, now, net) ==
    Only({ IF ~d.result.ok
           THEN [w |-> d.w, result |-> d.result, requested |-> TRUE]
           ELSE Only({ IF ~p.result.ok
                       THEN [w |-> p.w, result |-> p.result, requested |-> TRUE]
                       ELSE [w |-> [p.w EXCEPT !.manager.last_update = Some(now)],
                             result |-> Done, requested |-> TRUE] :
                       p \in {ParseEOPData(d.w)} }) :
           d \in {DownloadEOPData(w, net)} })

UpdateCacheIfNeeded(w, now, net) ==
    LET should_update ==
            IF w.manager.last_update.some
            THEN now - w.manager.last_update.value > CACHE_DURATION_HOURS
            ELSE TRUE
    IN IF should_update
       THEN DownloadParseStamp(w, now, net)
       ELSE [w |-> w, result |-> Done, requested |-> FALSE]

RefreshData(w, now, net) == DownloadParseStamp(w, now, net)

Initialize(w, embedded, now, net) ==
    Only({ IF l.result.ok
           THEN [w |-> l.w, result |-> l.result, requested |-> FALSE]
           ELSE UpdateCacheIfNeeded(l.w, now, net) :
           l \in {LoadEmbeddedData(w, embedded)} })

(* EOPData::interpolate, fraction given as num / den *)
Lerp(a, b, fraction) == a + ((b - a) * fraction.num) \div fraction.den
Interpolate(eop1, eop2, fraction) ==
    [x_pole  |-> Lerp(eop1.x_pole, eop2.x_pole, fraction),
     y_pole  |-> Lerp(eop1.y_pole, eop2.y_pole, fraction),
     ut1_utc |-> Lerp(eop1.ut1_utc, eop2.ut1_utc, fraction),
     lod     |-> Lerp(eop1.lod, eop2.lod, fraction),
     ddpsi   |-> Lerp(eop1.ddpsi, eop2.ddpsi, fraction),
     ddeps   |-> Lerp(eop1.ddeps, eop2.ddeps, fraction)]

ToUnixSeconds(epoch) == epoch \div 2
NextBack(S) == CHOOSE t \in S : \A u \in S : u <= t
NoFraction == [num |-> 0, den |-> 1]

InterpolateEOPData(self, epoch) ==
    LET target_time == ToUnixSeconds(epoch)
        range == {t \in DOMAIN self.eop_data : t <= target_time}
        after == IF range = {} THEN None ELSE Some(NextBack(range))
        before == IF Cardinality(range) < 2 THEN None
                  ELSE Some(NextBack(range \ {NextBack(range)}))
    IN IF IsEmpty(self.eop_data)
       THEN [result |-> Err("MissingEOPData"), before |-> None, after |-> None,
             fraction |-> NoFraction]
       ELSE IF before.some /\ after.some
            THEN LET fraction == [num |-> target_time - before.value,
                                  den |-> after.value - before.value]
                 IN [result |-> Ok(Interpolate(self.eop_data[before.value],
                                               self.eop_data[after.value], fraction)),
                     before |-> before, after |-> after, fraction |-> fraction]
            ELSE IF after.some
                 THEN [result |-> Ok(self.eop_data[after.value]), before |-> before,
                       after |-> after, fraction |-> NoFraction]
                 ELSE [result |-> Err("DataInterpolationError"), before |-> before,
                       after |-> after, fraction |-> NoFraction]

NoInterpolation == [result |-> Err("MissingEOPData"), before |-> None, after |-> None,
                    fraction |-> NoFraction, called |-> FALSE]
Interpolated(self, epoch) ==
    Only({ [result |-> r.result, before |-> r.before, after |-> r.after,
            fraction |-> r.fraction, called |-> TRUE] :
           r \in {InterpolateEOPData(self, epoch)} })

(* get_eop_data: net is the outcome of the download update_cache_if_needed *)
(* may make, again that of the download refresh_data makes                *)
GetEOPData(w, epoch, refresh, now, net, again) ==
    Only({ IF u.result.ok
           THEN Only({ [w |-> u.w, result |-> r.result, update |-> u.result,
                        requested |-> u.requested, interpolation |-> r] :
                       r \in {Interpolated(u.w.manager, epoch)} })
           ELSE IF refresh
                THEN Only({ IF ~f.result.ok
                            THEN [w |-> f.w, result |-> f.result, update |-> u.result,
                                  requested |-> TRUE, interpolation |-> NoInterpolation]
                            ELSE Only({ [w |-> f.w, result |-> r.result, update |-> u.result,
                                         requested |-> TRUE, interpolation |-> r] :
                                        r \in {Interpolated(f.w.manager, epoch)} }) :
                            f \in {RefreshData(u.w, now, again)} })
                ELSE [w |-> u.w, result |-> Err("MissingEOPData"), update |-> u.result,
                      requested |-> u.requested, interpolation |-> NoInterpolation] :
           u \in {UpdateCacheIfNeeded(w, now, net)} })

(* The process: threads calling EOPData::try_from and                    *)
(* EOPData::refresh_data on the one EOP_MANAGER, a clock, and the file   *)
(* embedded at build time.                                               *)

Threads == 2
MaxCalls == 3
ClockStep == 13
MaxClock == 39

ThreadIds == 1..Threads
EpochSamples == {10, 40, 51, 70}          \* 5 s, 20 s, 25.5 s, 35 s
EmbeddedFiles == {GoodFile, BrokenFile}   \* include_bytes!(OUT_DIR/eop_cache.csv)
Unlocked == 0

NoLast == [name |-> "none"]

EOPInit ==
    /\ fsm = New
    /\ prev = New
    /\ call = [op |-> "new", angular_velocity |-> NoVector, time |-> 0,
               ret |-> FALSE, printed |-> FALSE, since |-> 0, noticed |-> {}]
    /\ mono = TRUE
    /\ change_time = 0
    /\ notices = {}
    /\ loop = NoLoop
    /\ \E embedded \in EmbeddedFiles :
          calc = [op               |-> "eop",
                  w                |-> NewWorld,
                  INIT_STATUS      |-> None,
                  lock             |-> Unlocked,
                  pc               |-> [t \in ThreadIds |-> "idle"],
                  now              |-> 0,
                  embedded         |-> embedded,
                  calls            |-> 0,
                  initialize_calls |-> 0,
                  last             |-> NoLast]

(* what a finished call leaves for the claims to read *)
Finished(name, epoch, before, r) ==
    [name |-> name, epoch |-> epoch, before |-> before, after |-> r.w.manager,
     result |-> r.result, update |-> r.update, requested |-> r.requested,
     interpolation |-> r.interpolation]

(* let mut manager = EOP_MANAGER.lock().unwrap() *)
TryFromLock(t) ==
    /\ calc.op = "eop"
    /\ calc.pc[t] = "idle"
    /\ calc.lock = Unlocked
    /\ calc.calls < MaxCalls
    /\ calc' = [calc EXCEPT !.lock = t, !.pc[t] = "locked", !.calls = @ + 1]
    /\ CalcKeeps

(* INIT_STATUS.get().is_none(): manager.initialize()? *)
TryFromInitialize(t) ==
    /\ calc.op = "eop"
    /\ calc.pc[t] = "locked"
    /\ ~calc.INIT_STATUS.some
    /\ \E net \in NetOutcomes :
          LET r == Initialize(calc.w, calc.embedded, calc.now, net)
          IN calc' = IF r.result.ok
                     THEN [calc EXCEPT !.w = r.w, !.initialize_calls = @ + 1,
                                       !.pc[t] = "initialized"]
                     ELSE [calc EXCEPT !.w = r.w, !.initialize_calls = @ + 1,
                                       !.pc[t] = "idle", !.lock = Unlocked,
                                       !.last = [name |-> "initialize", result |-> r.result,
                                                 before |-> calc.w.manager,
                                                 after |-> r.w.manager,
                                                 requested |-> r.requested]]
    /\ CalcKeeps

(* INIT_STATUS.set(true).unwrap(): set returns Err, and unwrap panics    *)
(* with the lock held, where the cell already has a value                *)
TryFromSetStatus(t) ==
    /\ calc.op = "eop"
    /\ calc.pc[t] = "initialized"
    /\ calc' = IF calc.INIT_STATUS.some
               THEN [calc EXCEPT !.pc[t] = "panicked", !.lock = Unlocked]
               ELSE [calc EXCEPT !.INIT_STATUS = Some(TRUE), !.pc[t] = "get"]
    /\ CalcKeeps

(* INIT_STATUS.get() is Some: the block is skipped *)
TryFromInitialized(t) ==
    /\ calc.op = "eop"
    /\ calc.pc[t] = "locked"
    /\ calc.INIT_STATUS.some
    /\ calc' = [calc EXCEPT !.pc[t] = "get"]
    /\ CalcKeeps

(* manager.get_eop_data(epoch, false), and the guard dropped on return *)
TryFromGet(t) ==
    /\ calc.op = "eop"
    /\ calc.pc[t] = "get"
    /\ \E epoch \in EpochSamples, net \in NetOutcomes :
          LET r == GetEOPData(calc.w, epoch, FALSE, calc.now, net, net)
          IN calc' = [calc EXCEPT !.w = r.w, !.pc[t] = "idle", !.lock = Unlocked,
                                  !.last = Finished("get_eop_data", epoch,
                                                    calc.w.manager, r)]
    /\ CalcKeeps

(* EOPData::refresh_data(): lock, manager.refresh_data(), unlock *)
RefreshDataCall(t) ==
    /\ calc.op = "eop"
    /\ calc.pc[t] = "idle"
    /\ calc.lock = Unlocked
    /\ calc.calls < MaxCalls
    /\ \E net \in NetOutcomes :
          LET r == RefreshData(calc.w, calc.now, net)
          IN calc' = [calc EXCEPT !.w = r.w, !.calls = @ + 1,
                                  !.last = [name |-> "refresh_data", result |-> r.result,
                                            before |-> calc.w.manager,
                                            after |-> r.w.manager,
                                            requested |-> r.requested]]
    /\ CalcKeeps

(* Utc::now() moves on *)
Tick ==
    /\ calc.op = "eop"
    /\ calc.now + ClockStep <= MaxClock
    /\ calc' = [calc EXCEPT !.now = @ + ClockStep]
    /\ CalcKeeps

EOPNext ==
    \/ \E t \in ThreadIds : TryFromLock(t)
    \/ \E t \in ThreadIds : TryFromInitialize(t)
    \/ \E t \in ThreadIds : TryFromSetStatus(t)
    \/ \E t \in ThreadIds : TryFromInitialized(t)
    \/ \E t \in ThreadIds : TryFromGet(t)
    \/ \E t \in ThreadIds : RefreshDataCall(t)
    \/ Tick

EOPSpec == EOPInit /\ [][EOPNext]_vars

(* Reading the last finished call on the EOP cache *)
Looked == calc.op = "eop" /\ calc.last.name = "get_eop_data"
Refreshed == calc.op = "eop" /\ calc.last.name = "refresh_data"
SampleTimes(manager) == DOMAIN manager.eop_data
First(S) == CHOOSE t \in S : \A u \in S : t <= u
Covered(manager, epoch) ==
    /\ ~IsEmpty(manager.eop_data)
    /\ First(SampleTimes(manager)) <= ToUnixSeconds(epoch)
    /\ ToUnixSeconds(epoch) <= NextBack(SampleTimes(manager))

(* C22: over any interleaving of EOPData::try_from calls, initialize()   *)
(* is invoked at most once in the life of the process, whether it        *)
(* returned Ok or Err, and INIT_STATUS.set(true).unwrap() never panics.  *)
C22_InitializeOnce ==
    calc.op = "eop" =>
        /\ calc.initialize_calls <= 1
        /\ \A t \in ThreadIds : calc.pc[t] # "panicked"

(* C23: interpolate_eop_data interpolates between the two samples that   *)
(* bracket the epoch: with samples on both sides it uses the latest      *)
(* sample at or before the epoch and the earliest one after it, with a   *)
(* fraction in [0, 1]; for an epoch before the first or after the last   *)
(* sample of a non-empty table it returns the nearest sample unchanged.  *)
C23_Bracketing ==
    Looked /\ calc.last.interpolation.called /\ ~IsEmpty(calc.last.after.eop_data) =>
        LET table == calc.last.after.eop_data
            target == ToUnixSeconds(calc.last.epoch)
            earlier == {t \in DOMAIN table : t <= target}
            later == {t \in DOMAIN table : t > target}
            used == calc.last.interpolation
        IN /\ earlier # {} /\ later # {} =>
                /\ used.before = Some(NextBack(earlier))
                /\ used.after = Some(First(later))
                /\ 0 <= used.fraction.num /\ used.fraction.num <= used.fraction.den
                /\ used.result = Ok(Interpolate(table[NextBack(earlier)], table[First(later)],
                                                used.fraction))
           /\ earlier = {} => used.result = Ok(table[First(later)])
           /\ later = {} => used.result = Ok(table[NextBack(earlier)])

(* C24: once the table is non-empty, get_eop_data(epoch, false) returns  *)
(* Ok from it for an epoch it covers, attempts no download, and a failed *)
(* download does not make the populated table an error.                  *)
C24_LoadedDataServes ==
    Looked /\ Covered(calc.last.before, calc.last.epoch) =>
        /\ calc.last.result.ok
        /\ ~calc.last.requested

(* C29: a refresh_data or update_cache_if_needed that returns an error   *)
(* leaves the table eop_data and last_update exactly as they were.       *)
C29_FailureKeepsTable ==
    /\ Refreshed /\ ~calc.last.result.ok => calc.last.after = calc.last.before
    /\ Looked /\ ~calc.last.update.ok => calc.last.after = calc.last.before

----------------------------------------------------------------------------
(* The transition table of the governor as a graph *)

TableSuccessors(m) ==
    CASE m = "SafeMode" -> {"Detumbling"}
      [] m = "Detumbling" -> {"NominalOperation"}
      [] m = "NominalOperation" -> {"Emergency", "ManeuverPrep"}
      [] m = "ManeuverPrep" -> {"Maneuvering"}
      [] m = "Maneuvering" -> {"Emergency"}
      [] m = "Emergency" -> {"SafeMode"}

RECURSIVE TableReach(_, _)
TableReach(S, n) ==
    IF n = 0 THEN S
    ELSE TableReach(S \cup UNION {TableSuccessors(m) : m \in S}, n - 1)
TableReachableFrom(m) == TableReach(TableSuccessors(m), Cardinality(SpacecraftState))

(* Times after the last mode change at which a caller may call next: at *)
(* once, just past the preparation dwell, just past the emergency dwell. *)
DwellOffsets == {0, PrepDwell + 1, EmergencyDwell + 1}

(* The modes one call away from governor f *)
OneCallAway(f) ==
    { EvaluateTransition(f, [angular_velocity |-> v,
                             mission_elapsed_time |-> f.last_state_change + d]).current_state :
          v \in AngVelSamples, d \in DwellOffsets }
    \cup { CommandManeuver(f, f.last_state_change + d).fsm.current_state : d \in DwellOffsets }

(* C11: no mode is terminal.  In every reachable governor state each     *)
(* table successor of the current mode is one call away (with a time not *)
(* before the last change), and along the table every mode leads to      *)
(* every mode, SafeMode included; so from every mode every other mode    *)
(* is reached by a finite sequence of calls.                             *)
C11_NoTerminalState ==
    /\ TableSuccessors(fsm.current_state) \subseteq OneCallAway(fsm)
    /\ \A m \in SpacecraftState : TableReachableFrom(m) = SpacecraftState

C11_Witness ==
    /\ Moved("SafeMode", "Detumbling") /\ prev.last_state_change > 0
    /\ mono

(* Governors that agree with f on (current mode, last transition time)   *)
(* and differ in the rest of their memory.                               *)
Twins(f) == { [f EXCEPT !.last_message_time = m] : m \in Times \cup {InitialMessageTime} }

Decision(f) == <<f.current_state, f.last_state_change>>

Replay(g) ==
    IF Evaluated
    THEN [fsm |-> EvaluateTransition(g, [angular_velocity |-> call.angular_velocity,
                                          mission_elapsed_time |-> call.time]),
          ret |-> FALSE, printed |-> FALSE]
    ELSE CommandManeuver(g, call.time)

(* C12 as stated: governors that agree on (mode, last transition time)   *)
(* decide alike, and the governor holds no further state that any        *)
(* operation reads or writes.                                            *)
C12_NoOtherMemory ==
    call.op # "new" =>
        /\ \A g \in Twins(prev) : Decision(Replay(g).fsm) = Decision(fsm)
        /\ fsm.last_message_time = prev.last_message_time
        /\ \A g \in Twins(prev) :
              Replay(g).ret = call.ret /\ Replay(g).printed = call.printed

(* C12 as amended: governors that agree on (mode, last transition time)  *)
(* reach the same mode and last_state_change on the same call, whatever  *)
(* their last_message_time; evaluate_transition neither reads nor writes *)
(* last_message_time; only a rejected command_maneuver writes it, and    *)
(* the thresholds are never written.                                     *)
C12_DecisionMemory ==
    call.op # "new" =>
        /\ \A g \in Twins(prev) : Decision(Replay(g).fsm) = Decision(fsm)
        /\ Evaluated => \A g \in Twins(prev) :
              Replay(g).fsm.last_message_time = g.last_message_time
        /\ fsm.last_message_time # prev.last_message_time => Commanded /\ ~call.ret
        /\ fsm.angular_velocity_threshold = prev.angular_velocity_threshold
        /\ fsm.emergency_angular_velocity = prev.emergency_angular_velocity

C12_Witness ==
    /\ Moved("ManeuverPrep", "Maneuvering")
    /\ prev.last_message_time > prev.last_state_change
    /\ call.time - prev.last_message_time <= 5

(* C25: one evaluate_transition call changes the mode at most once: the  *)
(* mode after the call is the mode before it or a direct successor of it *)
(* in the transition table, never a mode two rows away, whatever state   *)
(* is evaluated.                                                         *)
C25_OneRowPerCall ==
    Evaluated =>
        \/ fsm.current_state = prev.current_state
        \/ fsm.current_state \in TableSuccessors(prev.current_state)

C25_Witness ==
    /\ Evaluated
    /\ prev.current_state = "Emergency"
    /\ fsm.current_state \in TableSuccessors("Emergency")

(* C27: with non-decreasing times, a rejected command_maneuver(t) prints *)
(* the notice whenever the governor printed none during the 10 s before  *)
(* t; in particular the first rejected command of a governor prints it,  *)
(* for every t >= 0.                                                     *)
C27_NoticeWhenQuiet ==
    mono /\ Commanded /\ ~call.ret /\ (\A s \in call.noticed : call.time - s > MessageInterval)
        => call.printed

----------------------------------------------------------------------------
(* Reading the current step of a loop *)

Position(events, e) ==
    IF \E k \in 1..Len(events) : events[k] = e
    THEN CHOOSE k \in 1..Len(events) : events[k] = e /\ \A j \in 1..(k - 1) : events[j] # e
    ELSE 0
Count(events, e) == Cardinality({k \in 1..Len(events) : events[k] = e})
IntegratorCalled == Count(loop.events, "integrate") > 0

(* C9: in every propagation loop (main and integration_test) the thrust  *)
(* handed to SpacecraftDynamics is non-zero only if the governor's mode  *)
(* for the step is Maneuvering, and the control torque handed to it is   *)
(* zero in every step whose mode is SafeMode or Emergency.               *)
C9_GatedInputs ==
    loop.dynamics.built =>
        /\ loop.dynamics.thrust.some /\ loop.dynamics.thrust.value # Zero3
              => fsm.current_state = "Maneuvering"
        /\ fsm.current_state \in {"SafeMode", "Emergency"} /\ loop.dynamics.torque.some
              => loop.dynamics.torque.value = Zero3

(* C9, integration_test alone: the gating holds in the loop that has a   *)
(* governor.                                                             *)
C9_TestLoopGated == loop.prog = "integration_test" => C9_GatedInputs

(* C10: within each step of either loop the caller sets the time fields, *)
(* then the governor is evaluated (exactly once), then controller and    *)
(* guidance outputs are computed, then the integrator is called.         *)
C10_StepOrder ==
    IntegratorCalled =>
        /\ Count(loop.events, "evaluate_transition") = 1
        /\ Position(loop.events, "set_time") = 1
        /\ Position(loop.events, "set_time") < Position(loop.events, "evaluate_transition")
        /\ Position(loop.events, "evaluate_transition") < Position(loop.events, "control")
        /\ Position(loop.events, "control") < Position(loop.events, "integrate")

(* C10, integration_test alone: the order holds in the loop that has a   *)
(* governor.                                                             *)
C10_TestLoopOrder == loop.prog = "integration_test" => C10_StepOrder

(* C26: in the integration-test loop, once mission time has reached     *)
(* maneuver_time, command_maneuver is called in every step until it has  *)
(* returned true and in no step after that; and if the rate never        *)
(* exceeds 0.5 rad/s, then from any step at or after maneuver_time with  *)
(* enough steps left, either the loop fails on its log, or the rate is   *)
(* at or above 0.01 rad/s again later, or the command has been accepted  *)
(* and the governor reaches Maneuvering.                                 *)
InTest == loop.prog = "integration_test"
PastCommand == loop.pc \in {"control", "dynamics", "eop", "log", "integrate", "failed"}
CommandedInStep == Count(loop.events, "command_maneuver")
RateLow ==
    \E w \in {loop.state.angular_velocity} : MagnitudeBelow(w, AngularVelocityThreshold)
RateNeverHigh ==
    \E w \in {loop.state.angular_velocity} : ~MagnitudeAbove(w, EmergencyAngularVelocity)
StepsOfPrepDwell == PrepDwell \div Dt + 1

RetriedUntilAccepted ==
    InTest /\ PastCommand =>
        /\ CommandedInStep <= 1
        /\ CommandedInStep = 1 => loop.state.mission_elapsed_time >= ManeuverTime
        /\ loop.state.mission_elapsed_time >= ManeuverTime /\ ~loop.maneuver_scheduled
              => CommandedInStep = 1

NeverAgain ==
    InTest /\ loop.maneuver_scheduled =>
        /\ loop'.maneuver_scheduled
        /\ loop'.events = << >> \/ loop'.events = <<"set_time">>
              \/ Count(loop'.events, "command_maneuver") = CommandedInStep

Settling ==
    /\ InTest
    /\ loop.pc = "set_time"
    /\ loop.i * Dt >= ManeuverTime
    /\ loop.i + StepsOfPrepDwell < Steps
    /\ RateLow

Settled ==
    \/ loop.pc = "failed"
    \/ ~RateLow
    \/ loop.maneuver_scheduled /\ fsm.current_state = "Maneuvering"

C26_ScheduledManeuver ==
    /\ []RetriedUntilAccepted
    /\ [][NeverAgain]_vars
    /\ ([]RateNeverHigh => (Settling ~> Settled))

C26_Witness ==
    /\ InTest
    /\ loop.maneuver_scheduled
    /\ fsm.current_state = "Maneuvering"
    /\ fsm.last_message_time >= ManeuverTime
    /\ RateLow

(* C21: an EOP lookup that returns an error never ends or skips the step *)
(* of either loop: the caller continues with the fixed default EOPData   *)
(* (0.161556, 0.247219, -0.0890529, 0.0017, -0.052, -0.003), the step    *)
(* goes on to the record and the integrator call (the program ends early *)
(* only where writing the record failed), and the dynamics handed to the *)
(* integrator is the one built from thrust and control torque before the *)
(* lookup, whatever the lookup returned.                                 *)
LookedUp == Count(loop.events, "eop") > 0
C21_EOPFallback ==
    /\ loop.eop_error =>
          /\ LookedUp
          /\ loop.eop = DefaultEOP
          /\ loop.eop.x_pole = 1615560 /\ loop.eop.y_pole = 2472190
          /\ loop.eop.ut1_utc = -890529 /\ loop.eop.lod = 17000
          /\ loop.eop.ddpsi = -520000 /\ loop.eop.ddeps = -30000
          /\ \/ loop.pc \in {"log", "integrate"}
             \/ IntegratorCalled /\ loop.pc \in {"set_time", "done"}
             \/ loop.pc = "failed" /\ Count(loop.events, "write_record") = 1
    /\ LookedUp =>
          loop.dynamics = [thrust |-> Some(loop.thrust),
                           torque |-> Some(loop.control_torque), built |-> TRUE]
    /\ IntegratorCalled => Position(loop.events, "eop") < Position(loop.events, "integrate")

(* C30: in every loop step whose mode is SafeMode or Emergency, where    *)
(* the governor suppresses attitude control, the torque given to         *)
(* SpacecraftDynamics is absent, so that angular_acceleration uses the   *)
(* gravity-gradient torque of calculate_torque.                          *)
C30_SuppressedTorqueAbsent ==
    loop.dynamics.built /\ fsm.current_state \in {"SafeMode", "Emergency"}
        => ~loop.dynamics.torque.some

C21_Witness ==
    /\ loop.eop_error
    /\ IntegratorCalled
    /\ loop.events[Len(loop.events)] = "integrate"

====
